---- MODULE Spec2Model ----
(***************************************************************************)
(* Business-description similarity pipeline: load_data, encode_sentences,  *)
(* find_top_similar, filter_non_similar and the main script.               *)
(*                                                                         *)
(* Strings are TLA+ strings; str.lower and sent_tokenize are tables over   *)
(* the texts the model uses.  A cosine similarity is an integer in units   *)
(* of 1e-5 (0.6 is 60000), so that round(score, 4) is a real rounding.     *)
(* An embedding is represented by the text the encoder was given: the      *)
(* pretrained model is a fixed function of the text.                       *)
(***************************************************************************)
EXTENDS Integers, Sequences, FiniteSets, TLC

VARIABLES
    pc,                     \* position of the script / of the calling harness
    csv,                    \* the input file: [columns, records]
    df_expanded,            \* main.py:16, also the `data` / `df_expanded` argument
    bd_embeddings,          \* main.py:21, also the `bd_embeddings` argument
    input_texts,            \* main.py:25, the `input_texts` argument
    non_similar_sentences,  \* main.py:31, the `non_similar_sentences` argument
    top_k,                  \* the `top_k` argument (25 when omitted)
    results_df,             \* main.py:26, also the value find_top_similar returns
    similar_companies_csv,  \* main.py:27, the unfiltered output file
    df_filtered,            \* main.py:32, also the value filter_non_similar returns
    filtered_embeddings,    \* main.py:37
    filtered_results_df,    \* main.py:35
    filtered_companies_csv, \* main.py:40, the filtered output file
    error,                  \* the exception that ended the run ("" when none)
    failed_at,              \* the stage that raised ("" when none)
    trace,                  \* stages completed so far, in order
    topk_ties,              \* the order torch.topk gives equal scores (unspecified by torch)
    encoder_nan             \* what model.encode does with a float NaN in its input list

vars == <<pc, csv, df_expanded, bd_embeddings, input_texts, non_similar_sentences,
          top_k, results_df, similar_companies_csv, df_filtered,
          filtered_embeddings, filtered_results_df, filtered_companies_csv, error, failed_at, trace,
          topk_ties, encoder_nan>>

-----------------------------------------------------------------------------
(* Bounds *)

MaxRecs == 3        \* records in the input file
MaxRows == 3        \* hand-built sentence rows given to a function directly
MaxQueries == 2     \* query sentences in one find_top_similar call
MaxExcluded == 2    \* excluded sentences in one filter_non_similar call
MaxK == 4           \* explicit top_k values tried besides the default

(* Program constants *)

TopKDefault == 25
DefaultThreshold == 60000

-----------------------------------------------------------------------------
(* Texts *)

NaN == "NaN"                  \* pandas' missing value in an object column
NoColumn == "<no column>"     \* field of a row whose column the frame lacks

Companies == {"Alpha Consulting", "Beta Loans"}
SortedCompanies == <<"Alpha Consulting", "Beta Loans">>

BulkSentences ==
    <<"u01.", "u02.", "u03.", "u04.", "u05.", "u06.", "u07.", "u08.", "u09.",
      "u10.", "u11.", "u12.", "u13.", "u14.", "u15.", "u16.", "u17.", "u18.",
      "u19.", "u20.", "u21.", "u22.", "u23.", "u24.", "u25.">>
BulkText == "u01. u02. (...) u25."

Descriptions ==
    {"   ",
     "It provides consultancy services.",
     "it offers consumer loans. It Advises Firms.",
     BulkText}

\* str.lower (data_preprocessing.py:18, similarity.py:9)
lower(t) ==
    CASE t = "It provides consultancy services." -> "it provides consultancy services."
      [] t = "it offers consumer loans. It Advises Firms."
             -> "it offers consumer loans. it advises firms."
      [] t = "Provides Consultancy Services." -> "provides consultancy services."
      [] t = "Offers Loans." -> "offers loans."
      [] OTHER -> t

\* nltk.sent_tokenize on the lowercased descriptions; a blank text has no sentence
sent_tokenize(t) ==
    CASE t = "   " -> <<>>
      [] t = "it provides consultancy services." -> <<"it provides consultancy services.">>
      [] t = "it offers consumer loans. it advises firms."
             -> <<"it offers consumer loans.", "it advises firms.">>
      [] t = BulkText -> BulkSentences
      [] OTHER -> <<t>>

References ==
    {"provides consultancy services.", "offers loans.",
     "company provides consumer loans", "sells insurance"}

\* cosine of the embedding of sentence a and of reference text b, in units of 1e-5
CosRef(a, b) ==
    CASE b = "provides consultancy services." ->
           (CASE a = "it provides consultancy services." -> 95004
              [] a = "it advises firms." -> 94996
              [] a = "it offers consumer loans." -> 20000
              [] a = "nan" -> 40000
              [] OTHER -> 30000)
      [] b = "offers loans." ->
           (CASE a = "it provides consultancy services." -> 20000
              [] a = "it advises firms." -> 15000
              [] a = "it offers consumer loans." -> 88000
              [] a = "nan" -> 10000
              [] OTHER -> 30000)
      [] b = "company provides consumer loans" ->
           (CASE a = "it provides consultancy services." -> 59999
              [] a = "it advises firms." -> 10000
              [] a = "it offers consumer loans." -> 60000
              [] a = "nan" -> 5000
              [] OTHER -> 30000)
      [] b = "sells insurance" ->
           (CASE a = "it advises firms." -> 75000
              [] OTHER -> 10000)
      [] OTHER -> 0

\* the cosine is symmetric in its two embeddings
Cos(a, b) == IF b \in References THEN CosRef(a, b) ELSE CosRef(b, a)

-----------------------------------------------------------------------------
(* Values returned by a call: err is the exception raised, "" when none *)

Ok(v) == [err |-> "", val |-> v]
Raise(e) == [err |-> e, val |-> <<>>]

\* embedding.py: model.encode(sentences).  A float NaN in the list is either
\* rejected by the tokenizer or passed through str() and encoded as "nan".
encode_sentences(sentences, nan_mode) ==
    IF \E i \in 1..Len(sentences) : sentences[i] = NaN
    THEN IF nan_mode = "raise"
         THEN Raise("TypeError")
         ELSE Ok([i \in 1..Len(sentences) |->
                    IF sentences[i] = NaN THEN "nan" ELSE sentences[i]])
    ELSE Ok(sentences)

\* util.cos_sim(a, b): one row per text of a, one column per text of b
cos_sim(a, b) ==
    [i \in 1..Len(a) |-> [j \in 1..Len(b) |-> Cos(a[i], b[j])]]

-----------------------------------------------------------------------------
(* data_preprocessing.py *)

Row(rec, has_company, s) ==
    [company_name |-> IF has_company THEN rec.name ELSE NoColumn,
     business_description |-> rec.desc,
     cleaned_description |-> lower(rec.desc),
     individual_sentences |-> s]

\* DataFrame.explode of one record: a row per list element, and ONE row holding
\* NaN when the list is empty
explode_record(rec, has_company) ==
    LET sentences == sent_tokenize(lower(rec.desc))
    IN  IF Len(sentences) = 0
        THEN << Row(rec, has_company, NaN) >>
        ELSE [i \in 1..Len(sentences) |-> Row(rec, has_company, sentences[i])]

RECURSIVE explode(_, _)
explode(recs, has_company) ==
    IF Len(recs) = 0 THEN <<>>
    ELSE explode_record(Head(recs), has_company) \o explode(Tail(recs), has_company)

\* load_data after read_csv: rename ignores a missing column, line 18 indexes
\* "business_description" and raises KeyError when it is absent
load_data(file) ==
    IF "Business Description" \notin file.columns
    THEN Raise("KeyError")
    ELSE Ok([has_company |-> "Company Name" \in file.columns,
             rows |-> explode(file.records, "Company Name" \in file.columns)])

-----------------------------------------------------------------------------
(* similarity.py *)

\* Python round(x, 4) on a score held in units of 1e-5
Round4(x) ==
    LET q == x \div 10
        r == x % 10
    IN  IF r < 5 THEN 10 * q
        ELSE IF r > 5 THEN 10 * (q + 1)
        ELSE IF q % 2 = 0 THEN 10 * q ELSE 10 * (q + 1)

\* the indices holding score v, in the order torch.topk gives equal scores:
\* torch does not specify it, ties is what this build does
Bucket(scores, v, ties) ==
    LET same == SelectSeq([i \in 1..Len(scores) |-> i], LAMBDA i : scores[i] = v)
    IN  IF ties = "lowest_index" THEN same
        ELSE [n \in 1..Len(same) |-> same[Len(same) + 1 - n]]

\* variant: lower score first
RECURSIVE Ordered_ascending(_, _, _)
Ordered_ascending(scores, values, ties) ==
    IF values = {} THEN <<>>
    ELSE LET m == CHOOSE v \in values : \A w \in values : v <= w
         IN  Bucket(scores, m, ties) \o Ordered_ascending(scores, values \ {m}, ties)

\* all indices, higher score first
RECURSIVE Ordered(_, _, _)
Ordered(scores, values, ties) ==
    IF values = {} THEN <<>>
    ELSE LET m == CHOOSE v \in values : \A w \in values : w <= v
         IN  Bucket(scores, m, ties) \o Ordered(scores, values \ {m}, ties)

topk_from(scores, k, ties) ==
    SubSeq(Ordered(scores, {scores[i] : i \in 1..Len(scores)}, ties), 1, k)

\* torch.topk(cosine_scores, k): indices of the k largest, largest first;
\* RuntimeError when k exceeds the number of scores
topk(scores, k, ties) ==
    IF k > Len(scores)
    THEN Raise("RuntimeError")
    ELSE Ok(topk_from(scores, k, ties))

ResultRow(data, scores, idx) ==
    [company_name |-> data.rows[idx].company_name,
     business_description |-> data.rows[idx].business_description,
     similar_sentence |-> data.rows[idx].individual_sentences,
     similarity_score |-> Round4(scores[idx])]

\* variant: the scores of the last query's row instead of row [0]
find_top_similar_last_query(texts, embeddings, data, k, ties) ==
    LET input_embeddings == [i \in 1..Len(texts) |-> lower(texts[i])]
    IN  IF Len(embeddings) = 0
        THEN Raise("RuntimeError")
        ELSE LET cosine_scores == cos_sim(input_embeddings, embeddings)[Len(texts)]
                 top_results == topk(cosine_scores, k, ties)
             IN  IF top_results.err # "" THEN Raise(top_results.err)
                 ELSE IF ~data.has_company /\ k > 0 THEN Raise("KeyError")
                 ELSE Ok([n \in 1..k |->
                            ResultRow(data, cosine_scores, top_results.val[n])])

find_top_similar(texts, embeddings, data, k, ties) ==
    LET input_embeddings == [i \in 1..Len(texts) |-> lower(texts[i])]
    IN  IF Len(embeddings) = 0
        THEN Raise("RuntimeError")
        ELSE LET cosine_scores == cos_sim(input_embeddings, embeddings)[1]
                 top_results == topk(cosine_scores, k, ties)
             IN  IF top_results.err # "" THEN Raise(top_results.err)
                 ELSE IF ~data.has_company /\ k > 0 THEN Raise("KeyError")
                 ELSE Ok([n \in 1..k |->
                            ResultRow(data, cosine_scores, top_results.val[n])])

-----------------------------------------------------------------------------
(* filtering_non_similar_companies.py *)

RECURSIVE SeqMax(_)
SeqMax(s) ==
    IF Len(s) = 1 THEN s[1]
    ELSE LET m == SeqMax(Tail(s)) IN IF s[1] >= m THEN s[1] ELSE m

\* variant: a score equal to the threshold does not count
is_similar_strict(description_embedding, non_similar_embeddings, threshold) ==
    IF Len(non_similar_embeddings) = 0
    THEN Raise("RuntimeError")
    ELSE LET cosine_scores ==
                 cos_sim(<<description_embedding>>, non_similar_embeddings)[1]
         IN  Ok(SeqMax(cosine_scores) > threshold)

\* variant: the comparison the wrong way round
is_similar_reversed(description_embedding, non_similar_embeddings, threshold) ==
    IF Len(non_similar_embeddings) = 0
    THEN Raise("RuntimeError")
    ELSE LET cosine_scores ==
                 cos_sim(<<description_embedding>>, non_similar_embeddings)[1]
         IN  Ok(SeqMax(cosine_scores) <= threshold)

\* cos_sim(...)[0].max() >= threshold; max() of no score raises RuntimeError
is_similar_to_non_similar(description_embedding, non_similar_embeddings, threshold) ==
    IF Len(non_similar_embeddings) = 0
    THEN Raise("RuntimeError")
    ELSE LET cosine_scores ==
                 cos_sim(<<description_embedding>>, non_similar_embeddings)[1]
         IN  Ok(SeqMax(cosine_scores) >= threshold)

\* df_expanded.groupby("company_name"): the sentences of every row of a company,
\* adjacent or not, in row order
GroupSentences(rows, company) ==
    LET group == SelectSeq(rows, LAMBDA r : r.company_name = company)
    IN  [i \in 1..Len(group) |-> group[i].individual_sentences]

\* lines 22-25: the loop over one group's embeddings, which stops at the first
\* hit (the least element of hits) or at the first call that raises
ScanGroup(embeddings, non_similar_embeddings, threshold) ==
    LET call(i) == is_similar_to_non_similar(embeddings[i],
                                             non_similar_embeddings, threshold)
        raised == {i \in 1..Len(embeddings) : call(i).err # ""}
        hits == {i \in 1..Len(embeddings) : call(i).err = "" /\ call(i).val}
    IN  IF \E i \in raised : \A h \in hits : i < h
        THEN Raise("RuntimeError")
        ELSE Ok(hits # {})

\* lines 19-25: the loop over the groups, in sorted key order
RECURSIVE ScanCompanies(_, _, _, _, _)
ScanCompanies(names, rows, non_similar_embeddings, threshold, nan_mode) ==
    IF Len(names) = 0 THEN Ok({})
    ELSE LET sentences == GroupSentences(rows, Head(names))
         IN  IF Len(sentences) = 0
             THEN ScanCompanies(Tail(names), rows, non_similar_embeddings,
                                threshold, nan_mode)
             ELSE LET embeddings == encode_sentences(sentences, nan_mode)
                  IN  IF embeddings.err # "" THEN embeddings
                      ELSE LET hit == ScanGroup(embeddings.val,
                                                non_similar_embeddings, threshold)
                               rest == ScanCompanies(Tail(names), rows,
                                          non_similar_embeddings, threshold, nan_mode)
                           IN  IF hit.err # "" THEN hit
                               ELSE IF rest.err # "" THEN rest
                               ELSE Ok((IF hit.val THEN {Head(names)} ELSE {})
                                       \cup rest.val)

companies_to_exclude(df, excluded, threshold, nan_mode) ==
    IF ~df.has_company THEN Raise("KeyError")
    ELSE ScanCompanies(SortedCompanies, df.rows, excluded, threshold, nan_mode)

\* lines 27-29: the rows whose company is not in the set, in row order
KeepRows(rows, drop) ==
    SelectSeq(rows, LAMBDA r : r.company_name \notin drop)

filter_with_threshold(df, excluded, threshold, nan_mode) ==
    LET drop == companies_to_exclude(df, excluded, threshold, nan_mode)
    IN  IF drop.err # "" THEN Raise(drop.err)
        ELSE Ok([has_company |-> df.has_company, rows |-> KeepRows(df.rows, drop.val)])

\* filter_non_similar never passes a threshold: the default 0.6 applies
filter_non_similar(df, excluded, nan_mode) ==
    filter_with_threshold(df, excluded, DefaultThreshold, nan_mode)

-----------------------------------------------------------------------------
(* main.py *)

input_sentences == <<"provides consultancy services.">>
main_non_similar_sentences == <<"company provides consumer loans">>

TieOrders == {"lowest_index", "highest_index"}
NanModes == {"raise", "str"}

RECURSIVE SeqsUpTo(_, _)
SeqsUpTo(S, n) ==
    IF n = 0 THEN {<<>>}
    ELSE LET shorter == SeqsUpTo(S, n - 1)
         IN  shorter \cup {Append(q, x) : q \in {t \in shorter : Len(t) = n - 1}, x \in S}

EmptyFrame == [has_company |-> TRUE, rows |-> <<>>]
NoFile == [written |-> FALSE, rows |-> <<>>]

Sentences(df) == [i \in 1..Len(df.rows) |-> df.rows[i].individual_sentences]

InputFiles ==
    {[columns |-> c, records |-> r] :
        c \in SUBSET {"Company Name", "Business Description"},
        r \in SeqsUpTo([name : Companies, desc : Descriptions], MaxRecs)}

Init ==
    /\ pc = "load"
    /\ csv \in InputFiles
    /\ df_expanded = EmptyFrame
    /\ bd_embeddings = <<>>
    /\ input_texts = input_sentences
    /\ non_similar_sentences = main_non_similar_sentences
    /\ top_k = TopKDefault
    /\ results_df = <<>>
    /\ similar_companies_csv = NoFile
    /\ df_filtered = EmptyFrame
    /\ filtered_embeddings = <<>>
    /\ filtered_results_df = <<>>
    /\ filtered_companies_csv = NoFile
    /\ error = ""
    /\ failed_at = ""
    /\ trace = <<>>
    /\ topk_ties \in TieOrders
    /\ encoder_nan \in NanModes

\* an uncaught exception ends the script: nothing in main.py catches or retries
Abort(stage, e) ==
    /\ pc' = "aborted"
    /\ error' = e
    /\ failed_at' = stage
    /\ UNCHANGED trace

Advance(stage, next) ==
    /\ pc' = next
    /\ trace' = Append(trace, stage)
    /\ UNCHANGED <<error, failed_at>>

\* main.py:16
Load ==
    /\ pc = "load"
    /\ \/ /\ Abort("load", "FileNotFoundError")
          /\ UNCHANGED df_expanded
       \/ LET r == load_data(csv)
          IN  IF r.err # ""
              THEN Abort("load", r.err) /\ UNCHANGED df_expanded
              ELSE Advance("load", "encode") /\ df_expanded' = r.val
    /\ UNCHANGED <<csv, bd_embeddings, input_texts, non_similar_sentences, top_k,
                   results_df, similar_companies_csv, df_filtered,
                   filtered_embeddings, filtered_results_df,
                   filtered_companies_csv, topk_ties, encoder_nan>>

\* main.py:20-21
Encode ==
    /\ pc = "encode"
    /\ LET r == encode_sentences(Sentences(df_expanded), encoder_nan)
       IN  IF r.err # ""
           THEN Abort("encode", r.err) /\ UNCHANGED bd_embeddings
           ELSE Advance("encode", "rank") /\ bd_embeddings' = r.val
    /\ UNCHANGED <<csv, df_expanded, input_texts, non_similar_sentences, top_k,
                   results_df, similar_companies_csv, df_filtered,
                   filtered_embeddings, filtered_results_df,
                   filtered_companies_csv, topk_ties, encoder_nan>>

\* main.py:25-26
Rank ==
    /\ pc = "rank"
    /\ LET r == find_top_similar(input_texts, bd_embeddings, df_expanded,
                                 top_k, topk_ties)
       IN  IF r.err # ""
           THEN Abort("rank", r.err) /\ UNCHANGED results_df
           ELSE Advance("rank", "write") /\ results_df' = r.val
    /\ UNCHANGED <<csv, df_expanded, bd_embeddings, input_texts,
                   non_similar_sentences, top_k, similar_companies_csv,
                   df_filtered, filtered_embeddings, filtered_results_df,
                   filtered_companies_csv, topk_ties, encoder_nan>>

\* main.py:27: to_csv writes the file or raises (no results directory)
Write ==
    /\ pc = "write"
    /\ \/ /\ Abort("write", "OSError")
          /\ UNCHANGED similar_companies_csv
       \/ /\ Advance("write", "filter")
          /\ similar_companies_csv' = [written |-> TRUE, rows |-> results_df]
    /\ UNCHANGED <<csv, df_expanded, bd_embeddings, input_texts,
                   non_similar_sentences, top_k, results_df, df_filtered,
                   filtered_embeddings, filtered_results_df,
                   filtered_companies_csv, topk_ties, encoder_nan>>

\* main.py:31-32
Filter ==
    /\ pc = "filter"
    /\ LET r == filter_non_similar(df_expanded, non_similar_sentences, encoder_nan)
       IN  IF r.err # ""
           THEN Abort("filter", r.err) /\ UNCHANGED df_filtered
           ELSE Advance("filter", "encode_filtered") /\ df_filtered' = r.val
    /\ UNCHANGED <<csv, df_expanded, bd_embeddings, input_texts,
                   non_similar_sentences, top_k, results_df,
                   similar_companies_csv, filtered_embeddings,
                   filtered_results_df, filtered_companies_csv, topk_ties,
                   encoder_nan>>

\* main.py:37
EncodeFiltered ==
    /\ pc = "encode_filtered"
    /\ LET r == encode_sentences(Sentences(df_filtered), encoder_nan)
       IN  IF r.err # ""
           THEN Abort("encode_filtered", r.err) /\ UNCHANGED filtered_embeddings
           ELSE Advance("encode_filtered", "rank_filtered")
                /\ filtered_embeddings' = r.val
    /\ UNCHANGED <<csv, df_expanded, bd_embeddings, input_texts,
                   non_similar_sentences, top_k, results_df,
                   similar_companies_csv, df_filtered, filtered_results_df,
                   filtered_companies_csv, topk_ties, encoder_nan>>

\* main.py:35-39
RankFiltered ==
    /\ pc = "rank_filtered"
    /\ LET r == find_top_similar(input_texts, filtered_embeddings, df_filtered,
                                 top_k, topk_ties)
       IN  IF r.err # ""
           THEN Abort("rank_filtered", r.err) /\ UNCHANGED filtered_results_df
           ELSE Advance("rank_filtered", "write_filtered")
                /\ filtered_results_df' = r.val
    /\ UNCHANGED <<csv, df_expanded, bd_embeddings, input_texts,
                   non_similar_sentences, top_k, results_df,
                   similar_companies_csv, df_filtered, filtered_embeddings,
                   filtered_companies_csv, topk_ties, encoder_nan>>

\* variant: the file is created before to_csv raises
WriteFiltered_partial ==
    /\ pc = "write_filtered"
    /\ \/ /\ Abort("write_filtered", "OSError")
          /\ filtered_companies_csv' = [written |-> TRUE, rows |-> <<>>]
       \/ /\ Advance("write_filtered", "plot")
          /\ filtered_companies_csv' = [written |-> TRUE, rows |-> filtered_results_df]
    /\ UNCHANGED <<csv, df_expanded, bd_embeddings, input_texts,
                   non_similar_sentences, top_k, results_df,
                   similar_companies_csv, df_filtered, filtered_embeddings,
                   filtered_results_df, topk_ties, encoder_nan>>

\* main.py:40-42
WriteFiltered ==
    /\ pc = "write_filtered"
    /\ \/ /\ Abort("write_filtered", "OSError")
          /\ UNCHANGED filtered_companies_csv
       \/ /\ Advance("write_filtered", "plot")
          /\ filtered_companies_csv' = [written |-> TRUE, rows |-> filtered_results_df]
    /\ UNCHANGED <<csv, df_expanded, bd_embeddings, input_texts,
                   non_similar_sentences, top_k, results_df,
                   similar_companies_csv, df_filtered, filtered_embeddings,
                   filtered_results_df, topk_ties, encoder_nan>>

\* visualization.py:8-10: DataFrame.pivot raises ValueError when two rows have
\* the same (index, columns) pair
plot_similarity_heatmap(rows) ==
    IF \E i, j \in 1..Len(rows) :
          /\ i < j
          /\ rows[i].company_name = rows[j].company_name
          /\ rows[i].similar_sentence = rows[j].similar_sentence
    THEN Raise("ValueError")
    ELSE Ok(<<>>)

\* main.py:45-47
Plot ==
    /\ pc = "plot"
    /\ LET r == plot_similarity_heatmap(filtered_results_df)
       IN  IF r.err # ""
           THEN Abort("plot", r.err)
           ELSE Advance("plot", "done")
    /\ UNCHANGED <<csv, df_expanded, bd_embeddings, input_texts,
                   non_similar_sentences, top_k, results_df,
                   similar_companies_csv, df_filtered, filtered_embeddings,
                   filtered_results_df, filtered_companies_csv, topk_ties,
                   encoder_nan>>

Next ==
    \/ Load
    \/ Encode
    \/ Rank
    \/ Write
    \/ Filter
    \/ EncodeFiltered
    \/ RankFiltered
    \/ WriteFiltered
    \/ Plot

Spec == Init /\ [][Next]_vars


-----------------------------------------------------------------------------
(* find_top_similar called on its own, on any candidates, queries and top_k *)

\* the sentence rows load_data emits for the one- and two-sentence descriptions
SentenceRows ==
    UNION {{explode_record([name |-> c, desc |-> d], TRUE)[i] :
              i \in 1..Len(explode_record([name |-> c, desc |-> d], TRUE))} :
           c \in Companies,
           d \in {"It provides consultancy services.",
                  "it offers consumer loans. It Advises Firms."}}

\* 24 rows, one short of the default top_k
BulkRows ==
    SubSeq(explode_record([name |-> "Alpha Consulting", desc |-> BulkText], TRUE),
           1, TopKDefault - 1)

QueryTexts == {"provides consultancy services.", "Offers Loans."}
ExcludedTexts == {"company provides consumer loans", "sells insurance"}

InitRank ==
    /\ pc = "call_find_top_similar"
    /\ csv = [columns |-> {}, records |-> <<>>]
    /\ \E base \in {<<>>, BulkRows}, few \in SeqsUpTo(SentenceRows, MaxRows) :
          df_expanded = [has_company |-> TRUE, rows |-> base \o few]
    /\ bd_embeddings = Sentences(df_expanded)
    /\ input_texts \in SeqsUpTo(QueryTexts, MaxQueries) \ {<<>>}
    /\ non_similar_sentences = <<>>
    /\ top_k \in (1..MaxK) \cup {TopKDefault}
    /\ results_df = <<>>
    /\ similar_companies_csv = NoFile
    /\ df_filtered = EmptyFrame
    /\ filtered_embeddings = <<>>
    /\ filtered_results_df = <<>>
    /\ filtered_companies_csv = NoFile
    /\ error = ""
    /\ failed_at = ""
    /\ trace = <<>>
    /\ topk_ties \in TieOrders
    /\ encoder_nan = "raise"

CallFindTopSimilar ==
    /\ pc = "call_find_top_similar"
    /\ pc' = "returned"
    /\ LET r == find_top_similar(input_texts, bd_embeddings, df_expanded,
                                 top_k, topk_ties)
       IN  /\ error' = r.err
           /\ results_df' = r.val
    /\ UNCHANGED <<csv, df_expanded, bd_embeddings, input_texts,
                   non_similar_sentences, top_k, similar_companies_csv,
                   df_filtered, filtered_embeddings, filtered_results_df,
                   filtered_companies_csv, failed_at, trace, topk_ties,
                   encoder_nan>>

NextRank == CallFindTopSimilar

SpecRank == InitRank /\ [][NextRank]_vars

-----------------------------------------------------------------------------
(* filter_non_similar called on its own, on any sentence rows and excluded list *)

InitFilter ==
    /\ pc = "call_filter_non_similar"
    /\ csv = [columns |-> {}, records |-> <<>>]
    /\ \E rows \in SeqsUpTo(SentenceRows, MaxRows) :
          df_expanded = [has_company |-> TRUE, rows |-> rows]
    /\ bd_embeddings = <<>>
    /\ input_texts = <<>>
    /\ non_similar_sentences \in SeqsUpTo(ExcludedTexts, MaxExcluded)
    /\ top_k = TopKDefault
    /\ results_df = <<>>
    /\ similar_companies_csv = NoFile
    /\ df_filtered = EmptyFrame
    /\ filtered_embeddings = <<>>
    /\ filtered_results_df = <<>>
    /\ filtered_companies_csv = NoFile
    /\ error = ""
    /\ failed_at = ""
    /\ trace = <<>>
    /\ topk_ties = "lowest_index"
    /\ encoder_nan = "raise"

CallFilterNonSimilar ==
    /\ pc = "call_filter_non_similar"
    /\ pc' = "returned"
    /\ LET r == filter_non_similar(df_expanded, non_similar_sentences, encoder_nan)
       IN  /\ error' = r.err
           /\ df_filtered' = IF r.err = "" THEN r.val ELSE EmptyFrame
    /\ UNCHANGED <<csv, df_expanded, bd_embeddings, input_texts,
                   non_similar_sentences, top_k, results_df,
                   similar_companies_csv, filtered_embeddings,
                   filtered_results_df, filtered_companies_csv, failed_at,
                   trace, topk_ties, encoder_nan>>

NextFilter == CallFilterNonSimilar

SpecFilter == InitFilter /\ [][NextFilter]_vars

-----------------------------------------------------------------------------
(* Properties *)

Min(a, b) == IF a <= b THEN a ELSE b

SortedDescending(results) ==
    \A n \in 1..(Len(results) - 1) :
        results[n].similarity_score >= results[n + 1].similarity_score

\* some sentence of the company scores at least the default threshold against
\* some excluded sentence
HasHit(rows, company, excluded) ==
    \E i \in 1..Len(rows), j \in 1..Len(excluded) :
        /\ rows[i].company_name = company
        /\ Cos(rows[i].individual_sentences, excluded[j]) >= DefaultThreshold

\* C1: with a non-empty excluded list, filter_non_similar returns exactly the
\* input rows, in their order, of the companies none of whose sentences (in
\* adjacent rows or not) scores >= 0.6 against an excluded sentence.
C1_FilterKeepsExactlyCleanCompanies ==
    (pc = "returned" /\ Len(non_similar_sentences) > 0) =>
        /\ error = ""
        /\ df_filtered.rows =
             SelectSeq(df_expanded.rows,
                       LAMBDA r : ~HasHit(df_expanded.rows, r.company_name,
                                          non_similar_sentences))

\* a company in rows 1 and 3, excluded only by the boundary score of row 3,
\* around a company that is kept
C1_Witness ==
    /\ pc = "returned"
    /\ error = ""
    /\ non_similar_sentences = <<"company provides consumer loans">>
    /\ Len(df_expanded.rows) = 3
    /\ df_expanded.rows[1].company_name = df_expanded.rows[3].company_name
    /\ df_expanded.rows[2].company_name # df_expanded.rows[1].company_name
    /\ df_expanded.rows[1].individual_sentences = "it provides consultancy services."
    /\ df_expanded.rows[3].individual_sentences = "it offers consumer loans."
    /\ df_filtered.rows = <<df_expanded.rows[2]>>

\* C2 as stated: for a non-empty candidate set of size N and any k,
\* find_top_similar returns exactly min(k, N) results sorted by descending score.
C2_ReturnsMinKN ==
    (pc = "returned" /\ Len(df_expanded.rows) > 0) =>
        /\ error = ""
        /\ Len(results_df) = Min(top_k, Len(df_expanded.rows))
        /\ SortedDescending(results_df)

\* C2 amended: for k <= N it returns exactly k results sorted by descending
\* score; for k > N it raises RuntimeError and returns nothing.
C2_ReturnsKOrRaises ==
    (pc = "returned" /\ Len(df_expanded.rows) > 0) =>
        IF top_k <= Len(df_expanded.rows)
        THEN /\ error = ""
             /\ Len(results_df) = top_k
             /\ SortedDescending(results_df)
        ELSE /\ error = "RuntimeError"
             /\ results_df = <<>>

C2_Witness ==
    /\ pc = "returned"
    /\ error = ""
    /\ top_k = TopKDefault
    /\ Len(df_expanded.rows) > TopKDefault
    /\ Len(results_df) = TopKDefault
    /\ results_df[1].similarity_score > results_df[TopKDefault].similarity_score

\* C8: with two or more queries the outcome of find_top_similar is the outcome
\* of the call with the one-element list holding the first query.
C8_OnlyFirstQueryCounts ==
    (pc = "returned" /\ Len(input_texts) >= 2) =>
        LET single == find_top_similar(<<input_texts[1]>>, bd_embeddings,
                                       df_expanded, top_k, topk_ties)
        IN  /\ error = single.err
            /\ results_df = single.val

C8_Witness ==
    /\ pc = "returned"
    /\ error = ""
    /\ Len(input_texts) = 2
    /\ lower(input_texts[1]) # lower(input_texts[2])
    /\ Len(results_df) >= 2
    /\ results_df[1].similarity_score > results_df[2].similarity_score

C4_EmptyExcludedListIsIdentity ==
    (pc = "returned" /\ Len(non_similar_sentences) = 0) =>
        /\ error = ""
        /\ df_filtered = df_expanded

ThresholdGrid == {0, 59999, 60000, 60001, 75000, 75001, 100001}

\* C5: for fixed rows and excluded sentences and thresholds t1 <= t2, the
\* companies excluded at t2 are among those excluded at t1.
C5_ThresholdMonotone ==
    (pc = "returned" /\ Len(non_similar_sentences) > 0) =>
        \A t1, t2 \in ThresholdGrid :
            t1 <= t2 =>
                companies_to_exclude(df_expanded, non_similar_sentences, t2,
                                     encoder_nan).val
                \subseteq
                companies_to_exclude(df_expanded, non_similar_sentences, t1,
                                     encoder_nan).val

\* the filter ran, and raising the threshold past the default frees a company
C5_Witness ==
    /\ pc = "returned"
    /\ error = ""
    /\ Len(df_filtered.rows) < Len(df_expanded.rows)
    /\ companies_to_exclude(df_expanded, non_similar_sentences, 60001,
                            encoder_nan).val
       # companies_to_exclude(df_expanded, non_similar_sentences, DefaultThreshold,
                              encoder_nan).val

-----------------------------------------------------------------------------
(* Properties of the script *)

Loaded == Len(trace) >= 1

\* companies of the input file all of whose descriptions have no sentence
ZeroSentenceCompanies ==
    {c \in Companies :
        /\ \E i \in 1..Len(csv.records) : csv.records[i].name = c
        /\ \A i \in 1..Len(csv.records) :
              csv.records[i].name = c =>
                  Len(sent_tokenize(lower(csv.records[i].desc))) = 0}

Names(rows) == {rows[i].company_name : i \in 1..Len(rows)}

\* C3: a company whose description has no sentence has no row in load_data's
\* output, in the results, in the filter output or in the filtered results.
C3_ZeroSentenceCompanyHasNoRow ==
    Loaded =>
        \A c \in ZeroSentenceCompanies :
            /\ c \notin Names(df_expanded.rows)
            /\ c \notin Names(results_df)
            /\ c \notin Names(df_filtered.rows)
            /\ c \notin Names(filtered_results_df)

\* one row per sentence of each record, in record order then sentence order
RECURSIVE RowPerSentence(_, _)
RowPerSentence(recs, has_company) ==
    IF Len(recs) = 0 THEN <<>>
    ELSE LET sentences == sent_tokenize(lower(Head(recs).desc))
         IN  [i \in 1..Len(sentences) |-> Row(Head(recs), has_company, sentences[i])]
             \o RowPerSentence(Tail(recs), has_company)

\* C6: load_data emits one row per detected sentence, with the record's company
\* name and description, in record order and then tokenization order.
C6_OneRowPerSentence ==
    Loaded =>
        df_expanded.rows =
            RowPerSentence(csv.records, "Company Name" \in csv.columns)

\* C7: with a required column absent, load_data itself fails, before any
\* encoding, ranking or file output.
C7_MissingColumnFailsInLoad ==
    (csv.columns # {"Company Name", "Business Description"}) =>
        /\ pc \in {"load", "aborted"}
        /\ pc = "aborted" => failed_at = "load"

Stages ==
    <<"load", "encode", "rank", "write", "filter", "encode_filtered",
      "rank_filtered", "write_filtered", "plot">>

\* the stages ran in the script's order, and a failed run stopped at the stage
\* that raised
RanInOrder ==
    /\ trace = SubSeq(Stages, 1, Len(trace))
    /\ pc = "aborted" => failed_at = Stages[Len(trace) + 1]
    /\ similar_companies_csv.written <=> Len(trace) >= 4
    /\ similar_companies_csv.written => similar_companies_csv.rows = results_df

\* C10 as stated: the stages run in order, a failure aborts the run, and a
\* failure after the first ranking leaves the filtered output file unwritten.
C10_FailureLeavesFilteredUnwritten ==
    /\ RanInOrder
    /\ (pc = "aborted" /\ Len(trace) >= 3) => ~filtered_companies_csv.written

\* C10 amended: the stages run in order, a failure aborts the run, and a
\* failure after the first ranking and before the heatmap leaves the filtered
\* output file unwritten; a failure in the heatmap, which the script plots
\* after the filtered write, leaves both files written.
C10_FailureBeforePlotLeavesFilteredUnwritten ==
    /\ RanInOrder
    /\ (pc = "aborted" /\ Len(trace) >= 3 /\ failed_at # "plot")
          => ~filtered_companies_csv.written
    /\ (pc = "aborted" /\ failed_at = "plot")
          => /\ similar_companies_csv.written
             /\ filtered_companies_csv.written
             /\ filtered_companies_csv.rows = filtered_results_df

C10_Witness ==
    /\ pc = "aborted"
    /\ failed_at = "rank_filtered"
    /\ trace = SubSeq(Stages, 1, 6)
    /\ similar_companies_csv.written
    /\ Len(similar_companies_csv.rows) = TopKDefault
    /\ ~filtered_companies_csv.written

====
